---------------------------- MODULE Spec2Model ----------------------------
(***************************************************************************)
(* Model of the save2win-engine transaction core                           *)
(* (src/src/save2win-engine/app.py): amount/time parsing, _normalize_tx,   *)
(* _bucket_for, _summarize, apply_game_logic and the summary endpoint.     *)
(*                                                                         *)
(* Conventions                                                             *)
(*  - A Python string is a sequence of one-character strings, so lower(),  *)
(*    replace(), strip() and the `in` substring test are computed.         *)
(*  - A Python float is a record [nan, v]: v counts thousandths (so        *)
(*    round(x, 2) is a real rounding, to a multiple of 10), nan marks the  *)
(*    IEEE not-a-number that float("nan") produces.                        *)
(*  - An instant is an integer number of minutes on the UTC time line.     *)
(*  - A JSON value is a record [k, n, s, f, o]; k is its kind.  A string   *)
(*    holding a timestamp text is described by how the datetime library    *)
(*    reads it (f), its wall-clock minutes (n) and its UTC offset (o).     *)
(***************************************************************************)
EXTENDS Integers, Sequences, FiniteSets, TLC

VARIABLES
    tz,            \* UTC offset (minutes) of the host's local timezone
    raw,           \* SpecTx: the raw mapping given to _normalize_tx
    npc,           \* SpecTx: position  "start" | "normalized" | "raised" | "bucketed"
    norm,          \* SpecTx: the record _normalize_tx returned
    nexc,          \* SpecTx: the exception _normalize_tx raised ("" if none)
    bucket,        \* SpecTx: the bucket _bucket_for returned
    pc,            \* Spec: position of the summary request:  "fetch" | "normalize" |
                   \*   "placeholders" | "sort" | "aggregate" | "game" | "done" |
                   \*   "error_fetch" | "error_summarize" | "error_game"
    transactions,  \* Spec: the list fetched from the MCP service
    tx,            \* Spec: _summarize's local list of normalized records
    now,           \* Spec: _summarize's local `now`
    summary,       \* Spec: the value _summarize returned
    ai_content,    \* Spec: the value _ai_or_fallback returned
    game,          \* Spec: the value apply_game_logic returned
    exc,           \* Spec: the exception that ended the request ("" if none)
    fpc,           \* SpecFloat: position  "call" | "returned" | "raised"
    fx,            \* SpecFloat: the value x given to _tofloat
    fdefault,      \* SpecFloat: the default given to _tofloat
    fret,          \* SpecFloat: what _tofloat returned, or the exception it raised
    inv,           \* SpecConc: the concurrent invocations of the core functions
    environ,       \* SpecKey: what the environment holds for the JWT public key
    _public_key_obj,  \* SpecKey: the module's key cache
    loads,         \* SpecKey: calls of _load_public_key_from_env so far
    req,           \* SpecKey: the requests being served, one thread each
    epc,           \* SpecEnrich: position  "call" | "returned"
    DISABLE_GEMINI,  \* SpecEnrich: the setting of the mcp gateway
    etransactions, \* SpecEnrich: the list given to enrich_transactions_with_gemini
    eresp,         \* SpecEnrich: what the Gemini call did
    eret           \* SpecEnrich: the list enrich_transactions_with_gemini returned

vars == << tz, raw, npc, norm, nexc, bucket,
           pc, transactions, tx, now, summary, ai_content, game, exc,
           fpc, fx, fdefault, fret, inv, environ, _public_key_obj, loads, req,
           epc, DISABLE_GEMINI, etransactions, eresp, eret >>

txvars == << raw, npc, norm, nexc, bucket >>
reqvars == << pc, transactions, tx, now, summary, ai_content, game, exc >>
floatvars == << fpc, fx, fdefault, fret >>
concvars == << inv >>
keyvars == << environ, _public_key_obj, loads, req >>
enrichvars == << epc, DISABLE_GEMINI, etransactions, eresp, eret >>
\* the variables neither SpecTx nor Spec and SpecGame use
othervars == << floatvars, concvars, keyvars, enrichvars >>

-----------------------------------------------------------------------------
(* Bounds of the model *)

\* longest transaction list the MCP service returns
MaxTx == 3

-----------------------------------------------------------------------------
(* Time units (minutes) *)

\* one day
Day == 24 * 60

\* the instant around which the sample data is laid out
Base == 1000 * 1000

\* UTC offsets the host's local timezone may have: UTC, New York
LocalOffsets == {0, -300}

-----------------------------------------------------------------------------
(* Python strings *)

UpperAlpha == <<"A","B","C","D","E","F","G","H","I","J","K","L","M",
                "N","O","P","Q","R","S","T","U","V","W","X","Y","Z">>
LowerAlpha == <<"a","b","c","d","e","f","g","h","i","j","k","l","m",
                "n","o","p","q","r","s","t","u","v","w","x","y","z">>
Digits == <<"0","1","2","3","4","5","6","7","8","9">>
Whitespace == {" ", "\t", "\n"}

Range(s) == {s[i] : i \in DOMAIN s}

LowerChar(c) ==
    IF \E i \in DOMAIN UpperAlpha : UpperAlpha[i] = c
    THEN LowerAlpha[CHOOSE i \in DOMAIN UpperAlpha : UpperAlpha[i] = c]
    ELSE c

\* str.lower()
Lower(s) == [i \in DOMAIN s |-> LowerChar(s[i])]

\* the test  w in s  on strings
Contains(s, w) ==
    \E i \in 0..(Len(s) - Len(w)) : SubSeq(s, i + 1, i + Len(w)) = w

\* str.replace(c, "") for a one-character c
RemoveChar(s, c) == SelectSeq(s, LAMBDA x : x # c)

RECURSIVE LStrip(_)
LStrip(s) == IF s # <<>> /\ Head(s) \in Whitespace THEN LStrip(Tail(s)) ELSE s

RECURSIVE RStrip(_)
RStrip(s) ==
    IF s # <<>> /\ s[Len(s)] \in Whitespace
    THEN RStrip(SubSeq(s, 1, Len(s) - 1)) ELSE s

\* str.strip()
Strip(s) == RStrip(LStrip(s))

\* str.capitalize()
UpperChar(c) ==
    IF \E i \in DOMAIN LowerAlpha : LowerAlpha[i] = c
    THEN UpperAlpha[CHOOSE i \in DOMAIN LowerAlpha : LowerAlpha[i] = c]
    ELSE c

Capitalize(s) ==
    IF s = <<>> THEN s ELSE <<UpperChar(s[1])>> \o Lower(Tail(s))

DigitVal(c) == (CHOOSE i \in DOMAIN Digits : Digits[i] = c) - 1

IsDigits(s) == \A i \in DOMAIN s : \E j \in DOMAIN Digits : Digits[j] = s[i]

RECURSIVE DigitsVal(_)
DigitsVal(s) ==
    IF s = <<>> THEN 0
    ELSE 10 * DigitsVal(SubSeq(s, 1, Len(s) - 1)) + DigitVal(s[Len(s)])

RECURSIVE NatStr(_)
NatStr(n) ==
    IF n < 10 THEN <<Digits[n + 1]>> ELSE NatStr(n \div 10) \o <<Digits[(n % 10) + 1]>>

-----------------------------------------------------------------------------
(* Python floats: [nan, v], v in thousandths *)

F(v) == [nan |-> FALSE, v |-> v]
FNaN == [nan |-> TRUE, v |-> 0]

\* comparisons with nan are all false
FGt0(a) == ~a.nan /\ a.v > 0
FLt0(a) == ~a.nan /\ a.v < 0
FGe0(a) == ~a.nan /\ a.v >= 0
FLe0(a) == ~a.nan /\ a.v <= 0
FNe0(a) == a.nan \/ a.v # 0

FAdd(a, b) == IF a.nan \/ b.nan THEN FNaN ELSE F(a.v + b.v)
FNeg(a) == IF a.nan THEN a ELSE F(0 - a.v)
FAbs(a) == IF a.nan THEN a ELSE F(IF a.v < 0 THEN 0 - a.v ELSE a.v)

\* round(x, 2): to the nearest hundredth, a tie going to the even hundredth
Round2Nat(n) ==
    LET q == n \div 10
        r == n % 10
    IN  IF r < 5 THEN 10 * q
        ELSE IF r > 5 THEN 10 * (q + 1)
        ELSE IF q % 2 = 0 THEN 10 * q ELSE 10 * (q + 1)

Round2(a) ==
    IF a.nan THEN a
    ELSE IF a.v >= 0 THEN F(Round2Nat(a.v)) ELSE F(0 - Round2Nat(0 - a.v))

-----------------------------------------------------------------------------
(* JSON values *)

Val(k, n, s, f, o) == [k |-> k, n |-> n, s |-> s, f |-> f, o |-> o]

Absent == Val("absent", 0, <<>>, "none", 0)   \* the key is not in the mapping
Null == Val("null", 0, <<>>, "none", 0)       \* None
Num(n) == Val("num", n, <<>>, "none", 0)      \* an int or float, n thousandths
NaNVal == Val("nan", 0, <<>>, "none", 0)      \* the float nan
Big == Val("big", 0, <<>>, "none", 0)         \* an int beyond the float range, 10**400
Bool(b) == Val("bool", IF b THEN 1 ELSE 0, <<>>, "none", 0)
Obj == Val("obj", 0, <<>>, "none", 0)         \* a non-empty list or mapping
Str(s) == Val("str", 0, s, "none", 0)
\* a string holding a timestamp text:
\*   f = "aware"  ISO-8601 with Z or an offset      2024-01-05T10:00:00+02:00
\*   f = "naive"  ISO-8601 without offset           2024-01-05, 2024-01-05T10:00:00
\*   f = "loose"  only a strptime format reads it   2024-1-5
\*   f = "edge"   ISO-8601 whose UTC value leaves year 1..9999
\*                                                  0001-01-01T00:00:00+05:00
TimeStr(f, wall, off) == Val("str", wall, <<"T">>, f, off)

IsStr(v) == v.k = "str"

\* bool(v)
Truthy(v) ==
    CASE v.k \in {"absent", "null"} -> FALSE
      [] v.k \in {"num", "bool"} -> v.n # 0
      [] v.k = "str" -> v.s # <<>>
      [] OTHER -> TRUE

\* str(v)
PyStr(v) ==
    CASE v.k = "str" -> v.s
      [] v.k \in {"absent", "null"} -> <<"N","o","n","e">>
      [] v.k = "bool" -> IF v.n = 1 THEN <<"T","r","u","e">> ELSE <<"F","a","l","s","e">>
      [] v.k = "nan" -> <<"n","a","n">>
      [] v.k = "big" -> <<"1","0","0","0","0">>
      [] v.k = "obj" -> <<"[","1","]">>
      [] OTHER ->
           LET a == IF v.n < 0 THEN 0 - v.n ELSE v.n
               sign == IF v.n < 0 THEN <<"-">> ELSE <<>>
               frac == NatStr(1000 + (a % 1000))
           IN  sign \o NatStr(a \div 1000)
                 \o (IF a % 1000 = 0 THEN <<>> ELSE <<".">> \o Tail(frac))

\* a raw mapping: every recognized key to its value, Absent when not present
Keys == {"date", "time", "timestamp", "amount", "type", "category",
         "label", "description", "merchant",
         "account", "toAccountId", "fromAccountId"}

\* dict.get(key): None for a key that is not present
Get(m, key) == IF m[key].k = "absent" THEN Null ELSE m[key]

\* dict.get(key, default)
GetDefault(m, key, default) == IF m[key].k = "absent" THEN default ELSE m[key]

\* `or` that falls through on None only, keeping a value that is empty or zero
Or_NotNone(a, b) == IF a.k \notin {"absent", "null"} THEN a ELSE b

\* a or b
Or(a, b) == IF Truthy(a) THEN a ELSE b

-----------------------------------------------------------------------------
(* Amount parser *)

FirstDot(s) ==
    IF \E i \in DOMAIN s : s[i] = "."
    THEN CHOOSE i \in DOMAIN s : s[i] = "." /\ \A j \in 1..(i - 1) : s[j] # "."
    ELSE 0

\* float(s) for a string: surrounding whitespace ignored, an optional sign,
\* then "nan" in any case or decimal digits with an optional point.  Exponents,
\* "inf" and digit-group underscores are outside the sample data.  The result
\* is [ok, val]; ok = FALSE is ValueError.
FloatOfStr(s) ==
    LET t == Strip(s)
        neg == t # <<>> /\ Head(t) = "-"
        body == IF t # <<>> /\ Head(t) \in {"-", "+"} THEN Tail(t) ELSE t
        dot == FirstDot(body)
        ip == IF dot = 0 THEN body ELSE SubSeq(body, 1, dot - 1)
        fp == IF dot = 0 THEN <<>> ELSE SubSeq(body, dot + 1, Len(body))
        fp3 == SubSeq(fp \o <<"0","0","0">>, 1, 3)
        mag == 1000 * DigitsVal(ip) + DigitsVal(fp3)
    IN  IF Lower(body) = <<"n","a","n">> THEN [ok |-> TRUE, val |-> FNaN]
        ELSE IF IsDigits(ip) /\ IsDigits(fp) /\ (ip # <<>> \/ fp # <<>>)
        THEN [ok |-> TRUE, val |-> F(IF neg THEN 0 - mag ELSE mag)]
        ELSE [ok |-> FALSE, val |-> F(0)]

\* _tofloat(x, default): [exc, val]; exc = "" when it returns val
_tofloat(x, default) ==
    CASE x.k \in {"absent", "null"} -> [exc |-> "", val |-> default]
      [] x.k = "str" ->
           LET r == FloatOfStr(Strip(RemoveChar(RemoveChar(x.s, ","), "$")))
           IN  [exc |-> "", val |-> IF r.ok THEN r.val ELSE default]
      [] x.k = "num" -> [exc |-> "", val |-> F(x.n)]
      [] x.k = "bool" -> [exc |-> "", val |-> F(1000 * x.n)]
      [] x.k = "nan" -> [exc |-> "", val |-> FNaN]
      [] x.k = "big" -> [exc |-> "OverflowError", val |-> default]
      [] OTHER -> [exc |-> "", val |-> default]

-----------------------------------------------------------------------------
(* Time parser *)

NoTime == [some |-> FALSE, t |-> 0]
Time(t) == [some |-> TRUE, t |-> t]

\* _parsetime(s): [exc, date]; the host's timezone decides how astimezone reads
\* a datetime without offset
_parsetime(s, localOffset) ==
    IF ~Truthy(s) THEN [exc |-> "", date |-> NoTime]
    ELSE IF ~IsStr(s) THEN [exc |-> "AttributeError", date |-> NoTime]
    ELSE CASE s.f = "aware" -> [exc |-> "", date |-> Time(s.n - s.o)]
           [] s.f = "naive" -> [exc |-> "", date |-> Time(s.n - localOffset)]
           [] s.f = "edge" -> [exc |-> "OverflowError", date |-> NoTime]
           [] s.f = "loose" -> [exc |-> "", date |-> Time(s.n)]
           [] OTHER -> [exc |-> "", date |-> NoTime]

-----------------------------------------------------------------------------
(* Transaction normalizer *)

S_credit == <<"c","r","e","d","i","t">>
S_income == <<"i","n","c","o","m","e">>
S_Credit == <<"C","r","e","d","i","t">>
S_Debit == <<"D","e","b","i","t">>
S_Income == <<"I","n","c","o","m","e">>
S_Other == <<"O","t","h","e","r">>
S_coffee == <<"c","o","f","f","e","e">>

NoAccount == [some |-> FALSE, s |-> <<>>]

\* ResolveType without the amount override of the hinted branch
ResolveType_HintOnly(typ, amount_float) ==
    IF Truthy(typ)
    THEN LET t_lower == Lower(PyStr(typ))
         IN  IF Contains(t_lower, S_credit) \/ Contains(t_lower, S_income)
             THEN "Credit" ELSE "Debit"
    ELSE IF FGt0(amount_float) THEN "Credit" ELSE "Debit"

\* the type _normalize_tx resolves from the type hint and the parsed amount
ResolveType(typ, amount_float) ==
    IF Truthy(typ)
    THEN LET t_lower == Lower(PyStr(typ))
         IN  IF Contains(t_lower, S_credit) \/ Contains(t_lower, S_income)
                \/ FGt0(amount_float)
             THEN "Credit" ELSE "Debit"
    ELSE IF FGt0(amount_float) THEN "Credit" ELSE "Debit"

\* the amount after the two sign-enforcing statements
EnforceSign(normalized_type, amount_float) ==
    LET a1 == IF normalized_type = "Credit" /\ FLt0(amount_float)
              THEN FAbs(amount_float) ELSE amount_float
    IN  IF normalized_type = "Debit" /\ FGt0(a1) THEN FNeg(a1) ELSE a1

\* _normalize_tx(raw): [exc, rec]; exc = "" when it returns rec
_normalize_tx(r, localOffset) ==
    LET date == Or(Or(Get(r, "date"), Get(r, "time")), Get(r, "timestamp"))
        amt == Get(r, "amount")
        typ == Or(Get(r, "type"), Get(r, "category"))
        lab == Or(Or(Or(Get(r, "label"), Get(r, "description")),
                     Get(r, "merchant")), Str(<<>>))
        acct == Or(Or(Get(r, "account"), Get(r, "toAccountId")),
                   Get(r, "fromAccountId"))
        fl == _tofloat(amt, F(0))
        normalized_type == ResolveType(typ, fl.val)
        parsed == _parsetime(date, localOffset)
        rec == [date |-> parsed.date,
                type |-> normalized_type,
                account |-> IF acct.k # "null"
                            THEN [some |-> TRUE, s |-> PyStr(acct)] ELSE NoAccount,
                label |-> PyStr(lab),
                amount |-> EnforceSign(normalized_type, fl.val),
                raw |-> r]
    IN  IF fl.exc # "" THEN [exc |-> fl.exc, rec |-> rec]
        ELSE [exc |-> parsed.exc, rec |-> rec]

-----------------------------------------------------------------------------
(* Bucket classifier *)

KEYWORDS ==
    << [bucket |-> <<"c","o","f","f","e","e">>,
        words |-> << <<"c","o","f","f","e","e">>,
                     <<"c","a","f","e">>,
                     <<"s","t","a","r","b","u","c","k","s">>,
                     <<"p","e","e","t">>,
                     <<"b","l","u","e"," ","b","o","t","t","l","e">>,
                     <<"c","o","s","t","a">>,
                     <<"n","e","r","o">> >>],
       [bucket |-> <<"g","r","o","c","e","r","i","e","s">>,
        words |-> << <<"g","r","o","c","e","r","y">>,
                     <<"g","r","o","c","e","r">>,
                     <<"m","a","r","k","e","t">>,
                     <<"s","a","f","e","w","a","y">>,
                     <<"t","e","s","c","o">>,
                     <<"a","s","d","a">>,
                     <<"a","l","d","i">>,
                     <<"l","i","d","l">>,
                     <<"w","h","o","l","e"," ","f","o","o","d","s">> >>],
       [bucket |-> <<"t","r","a","n","s","p","o","r","t">>,
        words |-> << <<"u","b","e","r">>,
                     <<"l","y","f","t">>,
                     <<"t","a","x","i">>,
                     <<"t","r","a","n","s","p","o","r","t">>,
                     <<"b","u","s">>,
                     <<"t","r","a","i","n">>,
                     <<"t","u","b","e">>,
                     <<"m","e","t","r","o">> >>],
       [bucket |-> <<"b","i","l","l","s">>,
        words |-> << <<"u","t","i","l","i","t","y">>,
                     <<"u","t","i","l","i","t","i","e","s">>,
                     <<"e","l","e","c","t","r","i","c">>,
                     <<"g","a","s">>,
                     <<"w","a","t","e","r">>,
                     <<"i","n","t","e","r","n","e","t">>,
                     <<"p","h","o","n","e">>,
                     <<"b","i","l","l">> >>],
       [bucket |-> <<"e","n","t","e","r","t","a","i","n","m","e","n","t">>,
        words |-> << <<"n","e","t","f","l","i","x">>,
                     <<"s","p","o","t","i","f","y">>,
                     <<"c","i","n","e","m","a">>,
                     <<"t","h","e","a","t","r","e">>,
                     <<"c","o","n","c","e","r","t">>,
                     <<"a","m","c">> >>] >>

\* the first category, in declaration order from index i, with a keyword in label
RECURSIVE FirstKeywordBucket(_, _)
FirstKeywordBucket(label, i) ==
    IF i > Len(KEYWORDS) THEN S_Other
    ELSE IF \E j \in DOMAIN KEYWORDS[i].words : Contains(label, KEYWORDS[i].words[j])
    THEN Capitalize(KEYWORDS[i].bucket)
    ELSE FirstKeywordBucket(label, i + 1)

\* _bucket_for with the keyword scan ahead of the Credit test
_bucket_for_KeywordsFirst(t) ==
    LET label == Lower(t.label)
        b == FirstKeywordBucket(label, 1)
    IN  IF b # S_Other THEN b
        ELSE IF t.type = "Credit" THEN S_Income ELSE S_Other

\* _bucket_for with the last matching category winning instead of the first
_bucket_for_LastCategory(t) ==
    LET label == Lower(t.label)
        M == { i \in DOMAIN KEYWORDS :
                 \E j \in DOMAIN KEYWORDS[i].words :
                     Contains(label, KEYWORDS[i].words[j]) }
    IN  IF t.type = "Credit" THEN S_Income
        ELSE IF M = {} THEN S_Other
        ELSE Capitalize(KEYWORDS[CHOOSE i \in M : \A k \in M : k <= i].bucket)

_bucket_for(t) ==
    LET label == Lower(t.label)
    IN  IF t.type = "Credit" THEN S_Income
        ELSE FirstKeywordBucket(label, 1)

-----------------------------------------------------------------------------
(* Sample data: the values the inputs are drawn from *)

\* texts of the sample data
T_money == <<"$","1",",","2","3","4",".","5","6">>
T_abc == <<"a","b","c">>
T_neg42 == <<" ","-","4","2"," ">>
T_nan == <<"N","a","N">>
T_subcent == <<"0",".","0","0","4">>
T_CREDIT == <<"C","R","E","D","I","T">>
T_debit == <<"d","e","b","i","t">>
T_refund == <<"I","n","c","o","m","e"," ","t","a","x"," ","r","e","f","u","n","d">>
T_food == <<"F","o","o","d">>
T_starbucks == <<"S","t","a","r","b","u","c","k","s"," ","#","1","2">>
T_ubermarket == <<"U","b","e","r"," ","M","a","r","k","e","t">>
T_rent == <<"r","e","n","t">>
T_bluebottle == <<"B","l","u","e"," ","B","o","t","t","l","e"," ","C","o","f","f","e","e">>
T_salary == <<"S","a","l","a","r","y">>
T_acct == <<"1","0","1","1","2","2","6","1","1","1">>
T_ride == <<" ","-","4","2",".","0","0","4"," ">>
T_garbage == <<"y","e","s","t","e","r","d","a","y">>
T_acct2 == <<"1","0","3","3","6","2","3","4","3","3">>

\* a mapping holding the given keys, every other key absent
EmptyMap == [key \in Keys |-> Absent]
With(m, key, v) == [m EXCEPT ![key] = v]

DateVals ==
    { Absent, Null, Str(<<>>), Num(0), Num(1700000 * 1000), Str(T_garbage),
      TimeStr("aware", Base - 2 * Day, 0),
      TimeStr("aware", Base - 2 * Day + 120, 120),
      TimeStr("naive", Base - 5 * Day, 0),
      TimeStr("loose", Base - 40 * Day, 0),
      TimeStr("edge", 0, 300) }

AmountVals ==
    { Absent, Null, Num(-6000), Num(0), Num(500000), Num(4), Bool(TRUE),
      Str(T_money), Str(T_abc), Str(T_neg42), Str(T_nan), Str(T_subcent),
      NaNVal, Big, Obj }

TypeVals == { Absent, Null, Str(<<>>), Str(S_Credit), Str(T_CREDIT), Str(T_debit),
              Str(T_refund), Num(5000) }

CategoryVals == { Absent, Str(S_Income), Str(T_food) }

LabelVals == { Absent, Str(<<>>), Str(T_starbucks), Str(T_ubermarket), Str(T_rent),
               Num(42000) }

AccountVals == { Absent, Null, Str(T_acct), Num(0) }

\* the raw mappings of SpecTx: each family varies the keys of one attribute
RawRecords ==
    { [EmptyMap EXCEPT !["amount"] = a, !["type"] = t, !["category"] = c,
                       !["label"] = l] :
        a \in AmountVals, t \in TypeVals, c \in CategoryVals,
        l \in {Absent, Str(T_starbucks), Str(T_rent)} }
    \cup
    { [EmptyMap EXCEPT !["date"] = d, !["time"] = t, !["timestamp"] = s,
                       !["amount"] = a] :
        d \in DateVals,
        t \in {Absent, TimeStr("aware", Base - 3 * Day, 0)},
        s \in {Absent, Num(1700000 * 1000), TimeStr("naive", Base - Day, 0)},
        a \in {Num(-6000), Str(T_money)} }
    \cup
    { [EmptyMap EXCEPT !["label"] = l, !["description"] = d, !["merchant"] = m,
                       !["type"] = t, !["amount"] = a] :
        l \in LabelVals,
        d \in {Absent, Str(T_salary)},
        m \in {Absent, Str(T_bluebottle)},
        t \in {Absent, Str(S_Credit)},
        a \in {Num(-6000), Num(0)} }
    \cup
    { [EmptyMap EXCEPT !["account"] = x, !["toAccountId"] = y,
                       !["fromAccountId"] = z, !["amount"] = Num(-6000)] :
        x \in AccountVals, y \in {Absent, Str(T_acct2)}, z \in {Absent, Str(T_acct)} }

\* a record _normalize_tx has not produced yet
NoRec == [date |-> NoTime, type |-> "Debit", account |-> NoAccount,
          label |-> <<>>, amount |-> F(0), raw |-> EmptyMap]

-----------------------------------------------------------------------------
(* Summarizer *)

\* an entry of the list the MCP service returns: a mapping (isdict) or a value
\* of another shape
Mapping(m) == [isdict |-> TRUE, m |-> m]
NotMapping == [isdict |-> FALSE, m |-> EmptyMap]

\* [t for t in transactions if isinstance(t, dict)]
Mappings(txs) == SelectSeq(txs, LAMBDA e : e.isdict)

\* the comprehension's result for a mapping that normalizes to r, followed by
\* the result rest for the entries behind it
Prepend(r, rest) ==
    IF r.exc # "" THEN [exc |-> r.exc, tx |-> <<>>]
    ELSE IF rest.exc # "" THEN rest
    ELSE [exc |-> "", tx |-> <<r.rec>> \o rest.tx]

\* the filter that dropped the records of amount zero
DropZero(res) ==
    [exc |-> res.exc, tx |-> SelectSeq(res.tx, LAMBDA t : FNe0(t.amount))]

\* NormalizeAll followed by the filter that dropped the records of amount zero
RECURSIVE NormalizeAll_DropZero(_, _)
NormalizeAll_DropZero(txs, localOffset) ==
    IF txs = <<>> THEN [exc |-> "", tx |-> <<>>]
    ELSE IF ~Head(txs).isdict THEN NormalizeAll_DropZero(Tail(txs), localOffset)
    ELSE DropZero(Prepend(_normalize_tx(Head(txs).m, localOffset),
                          NormalizeAll_DropZero(Tail(txs), localOffset)))

\* NormalizeAll without the isinstance filter: an entry that is not a mapping
\* is normalized as a mapping without keys
RECURSIVE NormalizeAll_NoFilter(_, _)
NormalizeAll_NoFilter(txs, localOffset) ==
    IF txs = <<>> THEN [exc |-> "", tx |-> <<>>]
    ELSE Prepend(_normalize_tx(Head(txs).m, localOffset),
                 NormalizeAll_NoFilter(Tail(txs), localOffset))

\* tx = [_normalize_tx(t) for t in transactions if isinstance(t, dict)]:
\* [exc, tx]; the first record that raises ends the comprehension
RECURSIVE NormalizeAll(_, _)
NormalizeAll(txs, localOffset) ==
    IF txs = <<>> THEN [exc |-> "", tx |-> <<>>]
    ELSE IF ~Head(txs).isdict THEN NormalizeAll(Tail(txs), localOffset)
    ELSE Prepend(_normalize_tx(Head(txs).m, localOffset),
                 NormalizeAll(Tail(txs), localOffset))

\* Placeholders with the offset added instead of subtracted
Placeholders_Plus(l, n) ==
    [i \in DOMAIN l |->
        IF l[i].date.some THEN l[i]
        ELSE [l[i] EXCEPT !.date = Time(n + (i - 1))]]

\* for i, t in enumerate(tx): if t["date"] is None: t["date"] = now - i minutes
Placeholders(l, n) ==
    [i \in DOMAIN l |->
        IF l[i].date.some THEN l[i]
        ELSE [l[i] EXCEPT !.date = Time(n - (i - 1))]]

\* InsertDesc placing t ahead of the records of its own date
RECURSIVE InsertDesc_BeforeEqual(_, _)
InsertDesc_BeforeEqual(l, t) ==
    IF l = <<>> THEN <<t>>
    ELSE IF Head(l).date.t > t.date.t
    THEN <<Head(l)>> \o InsertDesc_BeforeEqual(Tail(l), t)
    ELSE <<t>> \o l

\* t placed after every record of the sorted list l that is not older than t
RECURSIVE InsertDesc(_, _)
InsertDesc(l, t) ==
    IF l = <<>> THEN <<t>>
    ELSE IF Head(l).date.t >= t.date.t THEN <<Head(l)>> \o InsertDesc(Tail(l), t)
    ELSE <<t>> \o l

\* tx.sort(key=date, reverse=True): descending, records of equal date in
\* their original order
RECURSIVE SortDesc(_)
SortDesc(l) ==
    IF l = <<>> THEN <<>>
    ELSE InsertDesc(SortDesc(SubSeq(l, 1, Len(l) - 1)), l[Len(l)])

\* _tx_to_json(t)
_tx_to_json(t) ==
    [date |-> IF t.date.some THEN TimeStr("aware", t.date.t, 0) ELSE Null,
     type |-> t.type,
     account |-> t.account,
     label |-> t.label,
     amount |-> Round2(t.amount)]

RECURSIVE FSum(_)
FSum(l) == IF l = <<>> THEN F(0) ELSE FAdd(FSum(SubSeq(l, 1, Len(l) - 1)), l[Len(l)].amount)

\* _sum_amt(items)
_sum_amt(items) == Round2(FSum(items))

\* _window with the cutoff instant itself left out
_window_Strict(l, n, days) ==
    LET cutoff == n - days * Day
        items == SelectSeq(l, LAMBDA t : t.date.t > cutoff)
        spend == _sum_amt(SelectSeq(items, LAMBDA t : FLt0(t.amount)))
        income == _sum_amt(SelectSeq(items, LAMBDA t : FGt0(t.amount)))
    IN  [spend |-> spend, income |-> income, net |-> Round2(FAdd(income, spend))]

\* _window taking the records before the cutoff instead of those since
_window_Before(l, n, days) ==
    LET cutoff == n - days * Day
        items == SelectSeq(l, LAMBDA t : t.date.t <= cutoff)
        spend == _sum_amt(SelectSeq(items, LAMBDA t : FLt0(t.amount)))
        income == _sum_amt(SelectSeq(items, LAMBDA t : FGt0(t.amount)))
    IN  [spend |-> spend, income |-> income, net |-> Round2(FAdd(income, spend))]

\* _window(days) of _summarize
_window(l, n, days) ==
    LET cutoff == n - days * Day
        items == SelectSeq(l, LAMBDA t : t.date.t >= cutoff)
        spend == _sum_amt(SelectSeq(items, LAMBDA t : FLt0(t.amount)))
        income == _sum_amt(SelectSeq(items, LAMBDA t : FGt0(t.amount)))
    IN  [spend |-> spend, income |-> income, net |-> Round2(FAdd(income, spend))]

\* order of Python strings, by code point; the texts compared are made of
\* letters
CharCode(c) ==
    IF \E i \in DOMAIN UpperAlpha : UpperAlpha[i] = c
    THEN 64 + (CHOOSE i \in DOMAIN UpperAlpha : UpperAlpha[i] = c)
    ELSE IF \E i \in DOMAIN LowerAlpha : LowerAlpha[i] = c
    THEN 96 + (CHOOSE i \in DOMAIN LowerAlpha : LowerAlpha[i] = c)
    ELSE 32

RECURSIVE StrLess(_, _)
StrLess(a, b) ==
    IF b = <<>> THEN FALSE
    ELSE IF a = <<>> THEN TRUE
    ELSE IF CharCode(Head(a)) # CharCode(Head(b))
    THEN CharCode(Head(a)) < CharCode(Head(b))
    ELSE StrLess(Tail(a), Tail(b))

\* the names in ascending order
RECURSIVE SortedNames(_)
SortedNames(S) ==
    IF S = {} THEN <<>>
    ELSE LET m == CHOOSE x \in S : \A y \in S \ {x} : StrLess(x, y)
         IN  <<m>> \o SortedNames(S \ {m})

\* the buckets of the output: one entry per bucket that received a record, in
\* ascending order of name, with the running total (rounded on output) and count
Buckets(l) ==
    LET names == SortedNames({_bucket_for(l[i]) : i \in DOMAIN l})
    IN  [k \in DOMAIN names |->
            LET members == SelectSeq(l, LAMBDA t : _bucket_for(t) = names[k])
            IN  [name |-> names[k],
                 total |-> Round2(FSum(members)),
                 count |-> Len(members)]]

\* min(debits, key=amount, default=None): the first record of the least amount
LargestDebit(l) ==
    LET debits == SelectSeq(l, LAMBDA t : FLt0(t.amount))
    IN  IF debits = <<>> THEN <<>>
        ELSE LET i == CHOOSE i \in DOMAIN debits :
                        /\ \A j \in DOMAIN debits : debits[i].amount.v <= debits[j].amount.v
                        /\ \A j \in 1..(i - 1) : debits[j].amount.v > debits[i].amount.v
             IN  <<debits[i]>>

\* LastIncome taking the oldest credit
LastIncome_Oldest(l) ==
    LET credits == SelectSeq(l, LAMBDA t : FGt0(t.amount))
    IN  IF credits = <<>> THEN <<>> ELSE <<credits[Len(credits)]>>

\* credits[0] if credits else None
LastIncome(l) ==
    LET credits == SelectSeq(l, LAMBDA t : FGt0(t.amount))
    IN  IF credits = <<>> THEN <<>> ELSE <<credits[1]>>

\* round(abs(spend) / 30.0, 2) if spend != 0 else 0.0
AvgDailySpend(spend) ==
    IF ~FNe0(spend) THEN F(0)
    ELSE IF spend.nan THEN spend
    ELSE LET a == FAbs(spend).v
             q == a \div 300
             r == a % 300
         IN  F(10 * (IF 2 * r < 300 THEN q
                     ELSE IF 2 * r > 300 THEN q + 1
                     ELSE IF q % 2 = 0 THEN q ELSE q + 1))

\* the value _summarize returns from its sorted list and its now
Summary(l, n) ==
    LET stats_30d == _window(l, n, 30)
    IN  [recent |-> [i \in DOMAIN l |-> _tx_to_json(l[i])],
         buckets |-> Buckets(l),
         highlights |->
             [largest_debit |-> [i \in DOMAIN LargestDebit(l) |-> _tx_to_json(LargestDebit(l)[i])],
              last_income |-> [i \in DOMAIN LastIncome(l) |-> _tx_to_json(LastIncome(l)[i])]],
         stats |-> [last_7d |-> _window(l, n, 7),
                    last_30d |-> stats_30d,
                    avg_daily_spend_30d |-> AvgDailySpend(stats_30d.spend)],
         count |-> Len(l)]

-----------------------------------------------------------------------------
(* Game rule engine *)

\* AnyCoffee reading the label ahead of the merchant
RECURSIVE AnyCoffee_LabelFirst(_)
AnyCoffee_LabelFirst(txs) ==
    IF txs = <<>> THEN "false"
    ELSE IF ~Head(txs).isdict THEN "AttributeError"
    ELSE LET text == Or(Or(Get(Head(txs).m, "label"), Get(Head(txs).m, "merchant")),
                        Str(<<>>))
         IN  IF ~IsStr(text) THEN "AttributeError"
             ELSE IF Contains(Lower(text.s), S_coffee) THEN "true"
             ELSE AnyCoffee_LabelFirst(Tail(txs))

\* any("coffee" in (t.get("merchant") or t.get("label") or "").lower()
\*     for t in transactions): "true", "false" or the exception raised
RECURSIVE AnyCoffee(_)
AnyCoffee(txs) ==
    IF txs = <<>> THEN "false"
    ELSE IF ~Head(txs).isdict THEN "AttributeError"
    ELSE LET text == Or(Or(Get(Head(txs).m, "merchant"), Get(Head(txs).m, "label")),
                        Str(<<>>))
         IN  IF ~IsStr(text) THEN "AttributeError"
             ELSE IF Contains(Lower(text.s), S_coffee) THEN "true"
             ELSE AnyCoffee(Tail(txs))

\* t.get("amount", 0) > 0: "true", "false" or the exception raised
AmountPositive(m) ==
    LET a == GetDefault(m, "amount", Num(0))
    IN  CASE a.k \in {"num", "bool"} -> IF a.n > 0 THEN "true" ELSE "false"
          [] a.k = "nan" -> "false"
          [] a.k = "big" -> "true"
          [] OTHER -> "TypeError"

\* any(category == "Income" or type == "Credit" or amount > 0
\*     for t in transactions)
RECURSIVE AnyMoney(_)
AnyMoney(txs) ==
    IF txs = <<>> THEN "false"
    ELSE IF ~Head(txs).isdict THEN "AttributeError"
    ELSE LET m == Head(txs).m
             r == IF Get(m, "category") = Str(S_Income) \/ Get(m, "type") = Str(S_Credit)
                  THEN "true" ELSE AmountPositive(m)
         IN  IF r = "false" THEN AnyMoney(Tail(txs)) ELSE r

FallbackContent ==
    [quest |-> "The Frugal Foodie! Pack your lunch twice this week for 500 XP.",
     tip |-> "Small swaps add up: try a homemade coffee this week."]

\* a content pair the Gemini model returned with both keys
GeminiContent == [quest |-> "quest by Gemini", tip |-> "tip by Gemini"]

\* what _ai_or_fallback may return for the list
AiContents(txs) ==
    IF txs = <<>> THEN {FallbackContent} ELSE {FallbackContent, GeminiContent}

NoGame == [xp |-> 0, level |-> 0, quest |-> "", tip |-> "", badges |-> <<>>]

\* apply_game_logic(transactions, ai_content): [exc, val]
apply_game_logic(txs, content) ==
    LET c == AnyCoffee(txs)
        m == AnyMoney(txs)
    IN  IF c \notin {"true", "false"} THEN [exc |-> c, val |-> NoGame]
        ELSE IF m \notin {"true", "false"} THEN [exc |-> m, val |-> NoGame]
        ELSE [exc |-> "",
              val |-> [xp |-> 100 + (IF c = "true" THEN 250 ELSE 0)
                                  + (IF m = "true" THEN 500 ELSE 0),
                       level |-> 1,
                       quest |-> content.quest,
                       tip |-> content.tip,
                       badges |-> (IF c = "true" THEN <<"coffee_crusader">> ELSE <<>>)
                                  \o (IF m = "true" THEN <<"money_maker">> ELSE <<>>)]]

NoStats == [spend |-> F(0), income |-> F(0), net |-> F(0)]

\* the summary before _summarize has returned
NoSummary ==
    [recent |-> <<>>, buckets |-> <<>>,
     highlights |-> [largest_debit |-> <<>>, last_income |-> <<>>],
     stats |-> [last_7d |-> NoStats, last_30d |-> NoStats,
                avg_daily_spend_30d |-> F(0)],
     count |-> 0]

-----------------------------------------------------------------------------
(* SpecTx: one raw mapping through _normalize_tx and _bucket_for *)

\* the variables of the other specifications, at rest
FloatIdle ==
    /\ fpc = "idle"
    /\ fx = Null
    /\ fdefault = F(0)
    /\ fret = [exc |-> "", val |-> F(0)]

ConcIdle == inv = <<>>

KeyIdle ==
    /\ environ = "unset"
    /\ _public_key_obj = "None"
    /\ loads = 0
    /\ req = <<>>

NoResponse == [kind |-> "none", fenced |-> FALSE, data |-> <<>>]

EnrichIdle ==
    /\ epc = "idle"
    /\ DISABLE_GEMINI = FALSE
    /\ etransactions = <<>>
    /\ eresp = NoResponse
    /\ eret = <<>>

ReqIdle ==
    /\ pc = "idle"
    /\ transactions = <<>>
    /\ tx = <<>>
    /\ now = 0
    /\ summary = NoSummary
    /\ ai_content = FallbackContent
    /\ game = NoGame
    /\ exc = ""

InitTx ==
    /\ tz \in LocalOffsets
    /\ raw \in RawRecords
    /\ npc = "start"
    /\ norm = NoRec
    /\ nexc = ""
    /\ bucket = <<>>
    /\ ReqIdle
    /\ FloatIdle
    /\ ConcIdle
    /\ KeyIdle
    /\ EnrichIdle

\* norm = _normalize_tx(raw), or the exception it raised
Normalize ==
    /\ npc = "start"
    /\ LET r == _normalize_tx(raw, tz)
       IN  IF r.exc = ""
           THEN /\ npc' = "normalized"
                /\ norm' = r.rec
                /\ nexc' = ""
           ELSE /\ npc' = "raised"
                /\ norm' = norm
                /\ nexc' = r.exc
    /\ UNCHANGED << tz, raw, bucket >>
    /\ UNCHANGED << reqvars, othervars >>

\* bucket = _bucket_for(norm)
Bucket ==
    /\ npc = "normalized"
    /\ npc' = "bucketed"
    /\ bucket' = _bucket_for(norm)
    /\ UNCHANGED << tz, raw, norm, nexc >>
    /\ UNCHANGED << reqvars, othervars >>

NextTx == Normalize \/ Bucket

SpecTx == InitTx /\ [][NextTx]_vars

-----------------------------------------------------------------------------
(* Spec: one authenticated request to /api/v1/game-state/summary *)

\* the entries the MCP service's list is drawn from
E_NotMapping == NotMapping
\* a coffee purchase seven days before Base
E_Coffee ==
    Mapping([EmptyMap EXCEPT !["date"] = TimeStr("aware", Base - 7 * Day, 0),
                             !["amount"] = Num(-6000),
                             !["merchant"] = Str(T_bluebottle)])
\* a ride ten days before Base, its time without offset, its amount with
\* a fraction of a cent
E_Ride ==
    Mapping([EmptyMap EXCEPT !["time"] = TimeStr("naive", Base - 10 * Day, 0),
                             !["amount"] = Str(T_ride),
                             !["label"] = Str(T_ubermarket)])
\* a salary forty days before Base
E_Salary ==
    Mapping([EmptyMap EXCEPT !["date"] = TimeStr("loose", Base - 40 * Day, 0),
                             !["amount"] = Num(100000),
                             !["category"] = Str(S_Income),
                             !["description"] = Str(T_salary)])
\* a credit of amount zero, without date
E_ZeroCredit ==
    Mapping([EmptyMap EXCEPT !["type"] = Str(T_CREDIT),
                             !["amount"] = Num(0),
                             !["label"] = Str(T_starbucks)])
\* a record without a readable date whose amount is null
E_Undated ==
    Mapping([EmptyMap EXCEPT !["date"] = Str(T_garbage),
                             !["amount"] = Null,
                             !["label"] = Str(T_rent)])
\* a deposit at the same instant as E_Coffee, written with another offset
E_Deposit ==
    Mapping([EmptyMap EXCEPT !["date"] = TimeStr("aware", Base - 7 * Day + 120, 120),
                             !["amount"] = Str(T_money),
                             !["label"] = Str(T_salary)])
\* a record whose date is a number (epoch seconds)
E_EpochDate ==
    Mapping([EmptyMap EXCEPT !["date"] = Num(1700000 * 1000),
                             !["amount"] = Num(-5000)])

RawSamples ==
    { E_NotMapping, E_Coffee, E_Ride, E_Salary, E_ZeroCredit, E_Undated,
      E_Deposit, E_EpochDate }

\* the lists the MCP service may return
TxLists == UNION { [1..n -> RawSamples] : n \in 0..MaxTx }

\* the instants datetime.now may return
NowValues == { Base, Base + 1 }

TxIdle ==
    /\ raw = EmptyMap
    /\ npc = "idle"
    /\ norm = NoRec
    /\ nexc = ""
    /\ bucket = <<>>

Init ==
    /\ tz \in LocalOffsets
    /\ pc = "fetch"
    /\ transactions = <<>>
    /\ tx = <<>>
    /\ now = 0
    /\ summary = NoSummary
    /\ ai_content = FallbackContent
    /\ game = NoGame
    /\ exc = ""
    /\ TxIdle
    /\ FloatIdle
    /\ ConcIdle
    /\ KeyIdle
    /\ EnrichIdle

\* _get_transactions_from_mcp returns the list of the response
FetchTransactions ==
    /\ pc = "fetch"
    /\ \E l \in TxLists : transactions' = l
    /\ pc' = "normalize"
    /\ UNCHANGED << tz, tx, now, summary, ai_content, game, exc >>
    /\ UNCHANGED << txvars, othervars >>

\* _get_transactions_from_mcp: the MCP service cannot be reached
FetchFails ==
    /\ pc = "fetch"
    /\ pc' = "error_fetch"
    /\ exc' = "InternalServerError"
    /\ UNCHANGED << tz, transactions, tx, now, summary, ai_content, game >>
    /\ UNCHANGED << txvars, othervars >>

\* _summarize: the comprehension that normalizes the mappings
SummarizeNormalize ==
    /\ pc = "normalize"
    /\ LET r == NormalizeAll(transactions, tz)
       IN  IF r.exc = ""
           THEN /\ tx' = r.tx
                /\ pc' = "placeholders"
                /\ exc' = exc
           ELSE /\ tx' = tx
                /\ pc' = "error_summarize"
                /\ exc' = r.exc
    /\ UNCHANGED << tz, transactions, now, summary, ai_content, game >>
    /\ UNCHANGED << txvars, othervars >>

\* _summarize: now is read and the records without date get their placeholder
SummarizePlaceholders ==
    /\ pc = "placeholders"
    /\ \E n \in NowValues :
         /\ now' = n
         /\ tx' = Placeholders(tx, n)
    /\ pc' = "sort"
    /\ UNCHANGED << tz, transactions, summary, ai_content, game, exc >>
    /\ UNCHANGED << txvars, othervars >>

\* _summarize: tx.sort
SummarizeSort ==
    /\ pc = "sort"
    /\ tx' = SortDesc(tx)
    /\ pc' = "aggregate"
    /\ UNCHANGED << tz, transactions, now, summary, ai_content, game, exc >>
    /\ UNCHANGED << txvars, othervars >>

\* _summarize: buckets, highlights, windows; the summary is returned
SummarizeReturn ==
    /\ pc = "aggregate"
    /\ summary' = Summary(tx, now)
    /\ pc' = "game"
    /\ UNCHANGED << tz, transactions, tx, now, ai_content, game, exc >>
    /\ UNCHANGED << txvars, othervars >>

\* _ai_or_fallback, apply_game_logic and the response
GameAndRespond ==
    /\ pc = "game"
    /\ \E c \in AiContents(transactions) :
         /\ ai_content' = c
         /\ LET g == apply_game_logic(transactions, c)
            IN  IF g.exc = ""
                THEN /\ game' = g.val
                     /\ pc' = "done"
                     /\ exc' = exc
                ELSE /\ game' = game
                     /\ pc' = "error_game"
                     /\ exc' = g.exc
    /\ UNCHANGED << tz, transactions, tx, now, summary >>
    /\ UNCHANGED << txvars, othervars >>

Next ==
    \/ FetchTransactions
    \/ FetchFails
    \/ SummarizeNormalize
    \/ SummarizePlaceholders
    \/ SummarizeSort
    \/ SummarizeReturn
    \/ GameAndRespond

Spec == Init /\ [][Next]_vars

-----------------------------------------------------------------------------
(* SpecGame: one authenticated request to /api/v1/game-state *)

\* a purchase whose merchant names no coffee while its label does
G_HiddenCoffee ==
    Mapping([EmptyMap EXCEPT !["merchant"] = Str(T_starbucks),
                             !["label"] = Str(T_bluebottle),
                             !["amount"] = Num(-6000)])
\* a purchase with an empty merchant and a label naming coffee
G_LabelCoffee ==
    Mapping([EmptyMap EXCEPT !["merchant"] = Str(<<>>),
                             !["label"] = Str(T_bluebottle),
                             !["amount"] = Num(-6000)])
\* a record of type Credit whose amount is null
G_CreditNull ==
    Mapping([EmptyMap EXCEPT !["type"] = Str(S_Credit), !["amount"] = Null])
\* a record with a positive amount and nothing else
G_Positive == Mapping([EmptyMap EXCEPT !["amount"] = Num(500000)])
\* a mapping without any key
G_Empty == Mapping(EmptyMap)
\* a purchase whose merchant is a number
G_NumMerchant ==
    Mapping([EmptyMap EXCEPT !["merchant"] = Num(42000), !["amount"] = Num(-6000)])

GameSamples ==
    { E_NotMapping, E_Coffee, G_HiddenCoffee, G_LabelCoffee, E_Salary, G_CreditNull,
      E_ZeroCredit, E_Deposit, E_Undated, G_NumMerchant, G_Positive, G_Empty }

\* the lists the MCP service may return
GameLists == UNION { [1..n -> GameSamples] : n \in 0..MaxTx }

\* get_game_state: _get_transactions_from_mcp returns the list of the response
GameFetchTransactions ==
    /\ pc = "fetch"
    /\ \E l \in GameLists : transactions' = l
    /\ pc' = "game"
    /\ UNCHANGED << tz, tx, now, summary, ai_content, game, exc >>
    /\ UNCHANGED << txvars, othervars >>

NextGame ==
    \/ GameFetchTransactions
    \/ FetchFails
    \/ GameAndRespond

SpecGame == Init /\ [][NextGame]_vars

-----------------------------------------------------------------------------
(* SpecBuckets: a summary request over records whose amounts are credits,   *)
(* debits, zero, fractions of a cent and NaN                                *)

\* a debit whose amount is the text "NaN"
B_NaNDebit ==
    Mapping([EmptyMap EXCEPT !["amount"] = Str(T_nan), !["label"] = Str(T_rent)])
\* a credit whose amount is the JSON literal NaN
B_NaNCredit ==
    Mapping([EmptyMap EXCEPT !["type"] = Str(T_CREDIT), !["amount"] = NaNVal,
                             !["label"] = Str(T_salary)])
\* a credit of four tenths of a cent
B_SubCent ==
    Mapping([EmptyMap EXCEPT !["amount"] = Str(T_subcent), !["label"] = Str(T_salary)])

BucketSamples ==
    { E_Coffee, E_Ride, E_Deposit, E_ZeroCredit, B_NaNDebit, B_NaNCredit, B_SubCent }

BucketLists == UNION { [1..n -> BucketSamples] : n \in 0..MaxTx }

\* _get_transactions_from_mcp returns the list of the response
BucketFetchTransactions ==
    /\ pc = "fetch"
    /\ \E l \in BucketLists : transactions' = l
    /\ pc' = "normalize"
    /\ UNCHANGED << tz, tx, now, summary, ai_content, game, exc >>
    /\ UNCHANGED << txvars, othervars >>

NextBuckets ==
    \/ BucketFetchTransactions
    \/ FetchFails
    \/ SummarizeNormalize
    \/ SummarizePlaceholders
    \/ SummarizeSort
    \/ SummarizeReturn
    \/ GameAndRespond

SpecBuckets == Init /\ [][NextBuckets]_vars

-----------------------------------------------------------------------------
(* SpecFloat: one call of _tofloat *)

\* the values and the defaults given to _tofloat
FloatInputs ==
    AmountVals \cup { Num(-42000), Bool(FALSE), Str(<<>>), Str(T_ride) }
FloatDefaults == { F(0), F(-1000), FNaN }

InitFloat ==
    /\ tz \in LocalOffsets
    /\ fpc = "call"
    /\ fx \in FloatInputs
    /\ fdefault \in FloatDefaults
    /\ fret = [exc |-> "", val |-> F(0)]
    /\ TxIdle
    /\ ReqIdle
    /\ ConcIdle
    /\ KeyIdle
    /\ EnrichIdle

\* fret = _tofloat(fx, fdefault), or the exception it raised
ToFloat ==
    /\ fpc = "call"
    /\ LET r == _tofloat(fx, fdefault)
       IN  /\ fret' = r
           /\ fpc' = (IF r.exc = "" THEN "returned" ELSE "raised")
    /\ UNCHANGED << tz, fx, fdefault >>
    /\ UNCHANGED << txvars, reqvars, concvars, keyvars, enrichvars >>

NextFloat == ToFloat

SpecFloat == InitFloat /\ [][NextFloat]_vars

-----------------------------------------------------------------------------
(* SpecConc: concurrent invocations of _summarize and apply_game_logic, each *)
(* on a list of its own                                                      *)

\* number of concurrent invocations
NProc == 2

Procs == 1..NProc

\* the lists the invocations are given
ConcLists ==
    { << E_NotMapping, E_Undated, E_Coffee >>,
      << E_EpochDate, E_Salary >> }

\* an invocation of fn on the list l, not started yet
Invocation(fn, l, content) ==
    [fn |-> fn,
     given |-> l,              \* the list as the caller passed it
     transactions |-> l,       \* the caller's list object, as it is now
     ai_content |-> content,
     pc |-> "call",            \* "call" | "placeholders" | "sort" | "aggregate" |
                               \*   "returned" | "raised"
     tx |-> <<>>,
     now |-> 0,
     summary |-> NoSummary,
     game |-> NoGame,
     exc |-> ""]

\* the invocations a caller may make
Invocations ==
    UNION { { Invocation(fn, l, c) :
                fn \in {"_summarize", "apply_game_logic"}, c \in AiContents(l) } :
            l \in ConcLists }

InitConc ==
    /\ tz \in LocalOffsets
    /\ inv \in [Procs -> Invocations]
    /\ TxIdle
    /\ ReqIdle
    /\ FloatIdle
    /\ KeyIdle
    /\ EnrichIdle

\* _summarize's comprehension, filtering the caller's list in place
ConcNormalize_InPlace(i, localOffset) ==
    LET r == NormalizeAll(i.transactions, localOffset)
    IN  IF r.exc = ""
        THEN [i EXCEPT !.tx = r.tx, !.pc = "placeholders",
                       !.transactions = Mappings(i.transactions)]
        ELSE [i EXCEPT !.exc = r.exc, !.pc = "raised"]

\* _summarize: the comprehension that normalizes the mappings into a new list
ConcNormalize(i, localOffset) ==
    LET r == NormalizeAll(i.transactions, localOffset)
    IN  IF r.exc = ""
        THEN [i EXCEPT !.tx = r.tx, !.pc = "placeholders"]
        ELSE [i EXCEPT !.exc = r.exc, !.pc = "raised"]

\* _summarize: now is read and the records without date get their placeholder
ConcPlaceholders(i, n) ==
    [i EXCEPT !.now = n, !.tx = Placeholders(i.tx, n), !.pc = "sort"]

\* _summarize: tx.sort
ConcSort(i) == [i EXCEPT !.tx = SortDesc(i.tx), !.pc = "aggregate"]

\* _summarize: buckets, highlights, windows; the summary is returned
ConcReturn(i) == [i EXCEPT !.summary = Summary(i.tx, i.now), !.pc = "returned"]

\* apply_game_logic, from call to return
ConcGame(i) ==
    LET g == apply_game_logic(i.transactions, i.ai_content)
    IN  IF g.exc = ""
        THEN [i EXCEPT !.game = g.val, !.pc = "returned"]
        ELSE [i EXCEPT !.exc = g.exc, !.pc = "raised"]

StepNormalize(p) ==
    /\ inv[p].fn = "_summarize" /\ inv[p].pc = "call"
    /\ inv' = [inv EXCEPT ![p] = ConcNormalize(inv[p], tz)]
    /\ UNCHANGED << tz, txvars, reqvars, floatvars, keyvars, enrichvars >>

StepPlaceholders(p) ==
    /\ inv[p].pc = "placeholders"
    /\ \E n \in NowValues : inv' = [inv EXCEPT ![p] = ConcPlaceholders(inv[p], n)]
    /\ UNCHANGED << tz, txvars, reqvars, floatvars, keyvars, enrichvars >>

StepSort(p) ==
    /\ inv[p].pc = "sort"
    /\ inv' = [inv EXCEPT ![p] = ConcSort(inv[p])]
    /\ UNCHANGED << tz, txvars, reqvars, floatvars, keyvars, enrichvars >>

StepReturn(p) ==
    /\ inv[p].pc = "aggregate"
    /\ inv' = [inv EXCEPT ![p] = ConcReturn(inv[p])]
    /\ UNCHANGED << tz, txvars, reqvars, floatvars, keyvars, enrichvars >>

StepGame(p) ==
    /\ inv[p].fn = "apply_game_logic" /\ inv[p].pc = "call"
    /\ inv' = [inv EXCEPT ![p] = ConcGame(inv[p])]
    /\ UNCHANGED << tz, txvars, reqvars, floatvars, keyvars, enrichvars >>

NextConc ==
    \/ \E p \in Procs : StepNormalize(p)
    \/ \E p \in Procs : StepPlaceholders(p)
    \/ \E p \in Procs : StepSort(p)
    \/ \E p \in Procs : StepReturn(p)
    \/ \E p \in Procs : StepGame(p)

SpecConc == InitConc /\ [][NextConc]_vars

-----------------------------------------------------------------------------
(* SpecKey: requests served concurrently by one process, one thread each;   *)
(* the verifier key cache, the authentication of the two game-state routes  *)
(* and /health                                                              *)

\* number of requests
NReq == 2

Reqs == 1..NReq

S_Bearer == <<"B","e","a","r","e","r"," ">>
S_bearer == <<"b","e","a","r","e","r"," ">>

\* s.startswith(prefix)
StartsWith(s, prefix) ==
    Len(s) >= Len(prefix) /\ SubSeq(s, 1, Len(prefix)) = prefix

\* a token: how jwt.decode finds it under the verifier key ("valid",
\* "expired", "invalid") and the acct claim of its payload
Token(sig, acct) == [sig |-> sig, acct |-> acct]

\* an Authorization header: the text up to the token, and the token
Header(scheme, token) == [scheme |-> scheme, token |-> token]

Headers ==
    { Header(<<>>, Token("invalid", Absent)),
      Header(S_bearer, Token("valid", Str(T_acct))),
      Header(S_Bearer, Token("invalid", Str(T_acct))),
      Header(S_Bearer, Token("expired", Str(T_acct))),
      Header(S_Bearer, Token("valid", Str(<<>>))),
      Header(S_Bearer, Token("valid", Str(T_acct))),
      Header(S_Bearer, Token("valid", Str(T_acct2))) }

GameRoutes == {"/api/v1/game-state", "/api/v1/game-state/summary"}

NoCall == [some |-> FALSE, account_id |-> Null]

\* a request of which nothing has been handled yet
Request(route, header) ==
    [route |-> route,
     header |-> header,
     pc |-> "start",           \* "wait" | "start" | "load" | "have_key" | "fetch" |
                               \*   "done"
     public_key |-> "None",    \* what _get_public_key returned to the handler
     account_id |-> Null,
     fetched |-> NoCall,       \* the account_id parameter of the call to MCP
     ok |-> "none",            \* /health: the ok field of the body
     status |-> 0]             \* the status of the response

Requests ==
    { Request(r, h) : r \in GameRoutes, h \in Headers }
    \cup { Request("/health", Header(<<>>, Token("invalid", Absent))) }

\* the lists the MCP service may return
KeyLists == { <<>>, << E_Coffee >>, << E_Undated >> }

\* a request that has not arrived yet
NoRequest == [Request("", Header(<<>>, Token("invalid", Absent))) EXCEPT !.pc = "wait"]

\* no step of this specification reads a date without offset: one host
\* timezone is enough
InitKey ==
    /\ tz = 0
    /\ environ \in {"pem", "unset"}
    /\ _public_key_obj = "None"
    /\ loads = 0
    /\ req = [p \in Reqs |-> NoRequest]
    /\ TxIdle
    /\ ReqIdle
    /\ FloatIdle
    /\ ConcIdle
    /\ EnrichIdle

\* _load_public_key_from_env(): [exc, key]
_load_public_key_from_env(e) ==
    IF e = "pem" THEN [exc |-> "", key |-> "KEY"]
    ELSE [exc |-> "RuntimeError", key |-> "None"]

\* _decode_jwt that takes an expired token as valid
_decode_jwt_NoExpiry(token, public_key) ==
    IF public_key = "KEY_NOT_FOUND" THEN [status |-> 500, decoded |-> Null]
    ELSE IF token.sig = "invalid" THEN [status |-> 401, decoded |-> Null]
    ELSE [status |-> 0, decoded |-> token.acct]

\* _decode_jwt(token) once _get_public_key has returned public_key:
\* [status, decoded]; status 0 when it returns the payload, of which decoded
\* is the acct claim
_decode_jwt(token, public_key) ==
    IF public_key = "KEY_NOT_FOUND" THEN [status |-> 500, decoded |-> Null]
    ELSE IF token.sig = "expired" THEN [status |-> 401, decoded |-> Null]
    ELSE IF token.sig = "invalid" THEN [status |-> 401, decoded |-> Null]
    ELSE [status |-> 0, decoded |-> token.acct]

\* the status of the response once the list l has been fetched
RespondStatus(route, l, n, content, localOffset) ==
    LET s == NormalizeAll(l, localOffset)
        g == apply_game_logic(l, content)
    IN  IF route = "/api/v1/game-state/summary" /\ s.exc # "" THEN 500
        ELSE IF g.exc # "" THEN 500
        ELSE 200

\* a request arrives and its handler runs up to the test
\* `_public_key_obj is None` of _get_public_key; a game-state route first
\* checks the Authorization header
Begin(p) ==
    /\ req[p].pc = "wait"
    /\ \E r \in Requests :
         IF r.route \in GameRoutes /\ ~StartsWith(r.header.scheme, S_Bearer)
         THEN req' = [req EXCEPT ![p] = [r EXCEPT !.pc = "done", !.status = 401]]
         ELSE IF _public_key_obj = "None"
         THEN req' = [req EXCEPT ![p] = [r EXCEPT !.pc = "load"]]
         ELSE req' = [req EXCEPT ![p] = [r EXCEPT !.pc = "have_key"]]
    /\ UNCHANGED << tz, environ, _public_key_obj, loads >>
    /\ UNCHANGED << txvars, reqvars, floatvars, concvars, enrichvars >>

\* _get_public_key: the branch that loads the key and assigns the cache
LoadKey(p) ==
    /\ req[p].pc = "load"
    /\ LET r == _load_public_key_from_env(environ)
       IN  _public_key_obj' = (IF r.exc = "" THEN r.key ELSE "KEY_NOT_FOUND")
    /\ loads' = loads + 1
    /\ req' = [req EXCEPT ![p].pc = "have_key"]
    /\ UNCHANGED << tz, environ >>
    /\ UNCHANGED << txvars, reqvars, floatvars, concvars, enrichvars >>

\* _get_public_key returns the cache; /health responds; a game-state route
\* decodes the token and reads the acct claim
UseKey(p) ==
    /\ req[p].pc = "have_key"
    /\ LET key == _public_key_obj
           d == _decode_jwt(req[p].header.token, key)
       IN  IF req[p].route = "/health"
           THEN req' = [req EXCEPT ![p].public_key = key,
                                   ![p].ok = (IF key # "KEY_NOT_FOUND"
                                              THEN "true" ELSE "false"),
                                   ![p].status = (IF key # "KEY_NOT_FOUND"
                                                  THEN 200 ELSE 500),
                                   ![p].pc = "done"]
           ELSE IF d.status # 0
           THEN req' = [req EXCEPT ![p].public_key = key,
                                   ![p].status = d.status,
                                   ![p].pc = "done"]
           ELSE IF ~Truthy(d.decoded)
           THEN req' = [req EXCEPT ![p].public_key = key,
                                   ![p].status = 401,
                                   ![p].pc = "done"]
           ELSE req' = [req EXCEPT ![p].public_key = key,
                                   ![p].account_id = d.decoded,
                                   ![p].pc = "fetch"]
    /\ UNCHANGED << tz, environ, _public_key_obj, loads >>
    /\ UNCHANGED << txvars, reqvars, floatvars, concvars, enrichvars >>

\* _get_transactions_from_mcp for account_id and the rest of the handler
FetchAndRespond(p) ==
    /\ req[p].pc = "fetch"
    /\ \/ \E l \in KeyLists, n \in NowValues, c \in {FallbackContent} :
            req' = [req EXCEPT
                      ![p].fetched = [some |-> TRUE, account_id |-> req[p].account_id],
                      ![p].status = RespondStatus(req[p].route, l, n, c, tz),
                      ![p].pc = "done"]
       \/ req' = [req EXCEPT
                    ![p].fetched = [some |-> TRUE, account_id |-> req[p].account_id],
                    ![p].status = 500,
                    ![p].pc = "done"]
    /\ UNCHANGED << tz, environ, _public_key_obj, loads >>
    /\ UNCHANGED << txvars, reqvars, floatvars, concvars, enrichvars >>

NextKey ==
    \/ \E p \in Reqs : Begin(p)
    \/ \E p \in Reqs : LoadKey(p)
    \/ \E p \in Reqs : UseKey(p)
    \/ \E p \in Reqs : FetchAndRespond(p)

SpecKey == InitKey /\ [][NextKey]_vars

-----------------------------------------------------------------------------
(* SpecEnrich: one call of enrich_transactions_with_gemini in the mcp       *)
(* gateway (src/src/mcp/app.py)                                             *)

\* longest list the transaction history service returns
MaxRaw == 3

\* the setting MAX_TXNS_FOR_ENRICH (default 50), here configured through the
\* environment to a size the lists can exceed
MAX_TXNS_FOR_ENRICH == 2

T_ts == <<"2","0","2","4","-","0","1","-","0","5">>
T_cafe == <<" ","C","a","f","e"," ">>

\* a transaction of the history service: a mapping with or without a
\* timestamp, or an entry that is no mapping
BankTx(id, ts) == [isdict |-> TRUE, id |-> id, timestamp |-> ts]
BankSamples ==
    { BankTx(1, Str(T_ts)), BankTx(2, Absent),
      [isdict |-> FALSE, id |-> 3, timestamp |-> Absent] }

BankLists == UNION { [1..n -> BankSamples] : n \in 0..MaxRaw }

\* an element of the array Gemini returned
Item(isdict, merchant, category, amount) ==
    [isdict |-> isdict, merchant |-> merchant, category |-> category,
     amount |-> amount]
ItemSamples ==
    { Item(TRUE, Str(T_cafe), Str(S_coffee), Str(T_neg42)),
      Item(TRUE, Absent, Null, Num(-6000)),
      Item(TRUE, Str(T_cafe), Str(S_coffee), Null),
      Item(TRUE, Str(T_cafe), Str(S_coffee), Str(T_money)),
      Item(FALSE, Absent, Absent, Absent) }

\* what the Gemini call did: it raised, or it returned a text; the text is
\* no JSON, a JSON value that is no array, or an array (data), with or
\* without a ```json fence around it
Response(kind, fenced, data) == [kind |-> kind, fenced |-> fenced, data |-> data]
Responses ==
    { Response("raises", FALSE, <<>>) }
    \cup { Response(k, f, <<>>) : k \in {"notjson", "notlist"}, f \in BOOLEAN }
    \cup { Response("list", f, d) :
             f \in BOOLEAN, d \in UNION { [1..n -> ItemSamples] : n \in 0..2 } }

\* float(amount): [ok, val]; ok = FALSE is an exception
FloatOf(a) ==
    CASE a.k = "str" -> FloatOfStr(a.s)
      [] a.k = "num" -> [ok |-> TRUE, val |-> F(a.n)]
      [] a.k = "bool" -> [ok |-> TRUE, val |-> F(1000 * a.n)]
      [] a.k = "nan" -> [ok |-> TRUE, val |-> FNaN]
      [] OTHER -> [ok |-> FALSE, val |-> F(0)]

\* transactions[-n:]
LastN(l, n) ==
    IF n = 0 \/ Len(l) <= n THEN l ELSE SubSeq(l, Len(l) - n + 1, Len(l))

\* the row built from element i of data, <<>> when the element is skipped
EnrichedRow(item, i, fallback) ==
    IF ~item.isdict THEN <<>>
    ELSE IF ~FloatOf(item.amount).ok THEN <<>>
    ELSE << [merchant |-> Strip(PyStr(GetDefault(item, "merchant", Str(<<>>)))),
             category |-> Strip(PyStr(GetDefault(item, "category", Str(<<>>)))),
             amount |-> FloatOf(item.amount).val,
             timestamp |-> IF i <= Len(fallback) /\ fallback[i].isdict
                              /\ Get(fallback[i], "timestamp") # Null
                           THEN Get(fallback[i], "timestamp") ELSE Absent] >>

\* the rows of data[i..], in order
RECURSIVE EnrichedRows(_, _, _)
EnrichedRows(data, i, fallback) ==
    IF i > Len(data) THEN <<>>
    ELSE EnrichedRow(data[i], i, fallback) \o EnrichedRows(data, i + 1, fallback)

\* _clean_and_validate_enriched(raw_text, fallback)
_clean_and_validate_enriched(raw_text, fallback) ==
    IF raw_text.kind # "list" THEN fallback
    ELSE LET out == EnrichedRows(raw_text.data, 1, fallback)
         IN  IF out # <<>> THEN out ELSE fallback

\* enrich_transactions_with_gemini(transactions), given what the Gemini call
\* does
enrich_transactions_with_gemini(txs, disabled, resp) ==
    LET txns == LastN(txs, MAX_TXNS_FOR_ENRICH)
    IN  IF disabled THEN txs
        ELSE IF resp.kind = "raises" THEN txs
        ELSE _clean_and_validate_enriched(resp, txns)

InitEnrich ==
    /\ tz = 0
    /\ epc = "call"
    /\ DISABLE_GEMINI \in BOOLEAN
    /\ etransactions \in BankLists
    /\ eresp = NoResponse
    /\ eret = <<>>
    /\ TxIdle
    /\ ReqIdle
    /\ FloatIdle
    /\ ConcIdle
    /\ KeyIdle

\* eret = enrich_transactions_with_gemini(etransactions)
Enrich ==
    /\ epc = "call"
    /\ \E r \in Responses :
         /\ eresp' = (IF DISABLE_GEMINI THEN NoResponse ELSE r)
         /\ eret' = enrich_transactions_with_gemini(etransactions, DISABLE_GEMINI, r)
    /\ epc' = "returned"
    /\ UNCHANGED << tz, DISABLE_GEMINI, etransactions >>
    /\ UNCHANGED << txvars, reqvars, floatvars, concvars, keyvars >>

NextEnrich == Enrich

SpecEnrich == InitEnrich /\ [][NextEnrich]_vars

-----------------------------------------------------------------------------
(* Claims about one record (SpecTx) *)

Returned == npc \in {"normalized", "bucketed"}

\* C1: every record _normalize_tx produces satisfies the sign invariant:
\* type = Credit implies amount >= 0 and type = Debit implies amount <= 0.
C1_SignInvariant ==
    Returned =>
        /\ norm.type = "Credit" => FGe0(norm.amount)
        /\ norm.type = "Debit" => FLe0(norm.amount)

\* C2: _normalize_tx never fails: whatever the raw mapping holds, it returns a
\* record instead of raising.
C2_NormalizeNeverRaises == npc # "raised"

\* the type hint the normalizer reads, and the amount it parses
HintOf(r) == Or(Get(r, "type"), Get(r, "category"))
AmountOf(r) == _tofloat(Get(r, "amount"), F(0)).val
HintSaysCredit(h) ==
    \/ Contains(Lower(PyStr(h)), S_credit)
    \/ Contains(Lower(PyStr(h)), S_income)

\* C4: the resolved type follows the reference rule: with a type hint, Credit
\* iff the lower-cased hint contains "credit" or "income" or the parsed amount
\* is > 0; without one, Credit iff the parsed amount is > 0; Debit otherwise.
C4_TypeRule ==
    Returned =>
        LET h == HintOf(raw)
            a == AmountOf(raw)
        IN  IF h.k # "null"
            THEN norm.type = (IF HintSaysCredit(h) \/ (~a.nan /\ a.v > 0)
                              THEN "Credit" ELSE "Debit")
            ELSE norm.type = (IF ~a.nan /\ a.v > 0 THEN "Credit" ELSE "Debit")

\* C4 witness: a hint that names neither credit nor income, overridden to
\* Credit by a positive amount
C4_Witness ==
    /\ npc = "normalized"
    /\ Truthy(HintOf(raw))
    /\ ~HintSaysCredit(HintOf(raw))
    /\ AmountOf(raw).v > 0
    /\ norm.type = "Credit"

\* the spend categories with a keyword in the lower-cased label
MatchingCategories(label) ==
    { i \in DOMAIN KEYWORDS :
        \E j \in DOMAIN KEYWORDS[i].words :
            Contains(Lower(label), KEYWORDS[i].words[j]) }

\* C10: _bucket_for returns "Income" for every Credit transaction, whatever
\* its label.
C10_CreditIsIncome ==
    npc = "bucketed" /\ norm.type = "Credit" => bucket = S_Income

\* C10 witness: a Credit record whose label matches keywords of two spend
\* categories, bucketed as Income
C10_Witness ==
    /\ npc = "bucketed"
    /\ norm.type = "Credit"
    /\ Cardinality(MatchingCategories(norm.label)) >= 2
    /\ bucket = S_Income

\* the names a bucket can have
BucketNames ==
    { Capitalize(KEYWORDS[i].bucket) : i \in DOMAIN KEYWORDS } \cup {S_Income, S_Other}

\* C11: for a record that is not a Credit, _bucket_for returns the capitalised
\* name of the first category, in declaration order, one of whose keywords is
\* a substring of the lower-cased label, and "Other" exactly when no keyword
\* matches; the result is always one of the seven bucket names.
C11_FirstCategoryWins ==
    npc = "bucketed" =>
        /\ bucket \in BucketNames
        /\ norm.type # "Credit" =>
              LET M == MatchingCategories(norm.label)
              IN  /\ (bucket = S_Other) <=> (M = {})
                  /\ M # {} =>
                        \E i \in M : /\ \A k \in M : i <= k
                                      /\ bucket = Capitalize(KEYWORDS[i].bucket)

\* C11 witness: a Debit whose label has keywords of two categories, put in
\* the one declared first
C11_Witness ==
    /\ npc = "bucketed"
    /\ norm.type = "Debit"
    /\ Cardinality(MatchingCategories(norm.label)) >= 2
    /\ \E i \in MatchingCategories(norm.label) :
          /\ \A k \in MatchingCategories(norm.label) : i <= k
          /\ bucket = Capitalize(KEYWORDS[i].bucket)

\* the keys of each attribute, in priority order
DateKeys == <<"date", "time", "timestamp">>
TypeKeys == <<"type", "category">>
LabelKeys == <<"label", "description", "merchant">>
AccountKeys == <<"account", "toAccountId", "fromAccountId">>

\* the value of the first key of keys that holds a value in r (a key holding
\* null counts as holding none), null when there is no such key
FirstPresent(r, keys) ==
    LET P == { i \in DOMAIN keys : r[keys[i]].k \notin {"absent", "null"} }
    IN  IF P = {} THEN Null
        ELSE r[keys[CHOOSE i \in P : \A j \in P : i <= j]]

\* the value of the first key of keys whose value in r is truthy; when no key
\* has one, what the last key holds (null when it is absent)
FirstTruthy(r, keys) ==
    LET P == { i \in DOMAIN keys : Truthy(r[keys[i]]) }
    IN  IF P = {} THEN Get(r, keys[Len(keys)])
        ELSE r[keys[CHOOSE i \in P : \A j \in P : i <= j]]

\* the record's date, type, label and account are those of the values d, t, l, a
FieldsFrom(d, t, l, a) ==
    /\ norm.date = _parsetime(d, tz).date
    /\ norm.type = ResolveType(t, AmountOf(raw))
    /\ norm.label = (IF Truthy(l) THEN PyStr(l) ELSE <<>>)
    /\ norm.account = (IF a.k # "null" THEN [some |-> TRUE, s |-> PyStr(a)]
                       ELSE NoAccount)

\* C12 (as stated): for each attribute _normalize_tx uses the value of the
\* first key, in priority order, that is present in the raw mapping; a
\* lower-priority key is consulted only when every higher-priority key is
\* absent.
C12_FirstPresentKeyWins ==
    Returned =>
        FieldsFrom(FirstPresent(raw, DateKeys), FirstPresent(raw, TypeKeys),
                   FirstPresent(raw, LabelKeys), FirstPresent(raw, AccountKeys))

\* C12 (amended): for each attribute _normalize_tx uses the value of the first
\* key, in priority order, whose value is truthy; a lower-priority key is
\* consulted when every higher-priority key is absent or holds a falsy value
\* (null, "", 0, false); when no key holds a truthy value the attribute is
\* what the last key holds, and the label is the empty string.
C12_FirstTruthyKeyWins ==
    Returned =>
        FieldsFrom(FirstTruthy(raw, DateKeys), FirstTruthy(raw, TypeKeys),
                   FirstTruthy(raw, LabelKeys), FirstTruthy(raw, AccountKeys))

\* C12 witness: a label that is present but empty, passed over for the
\* merchant
C12_Witness ==
    /\ Returned
    /\ raw["label"] = Str(<<>>)
    /\ raw["description"] = Absent
    /\ Truthy(raw["merchant"])
    /\ norm.label = PyStr(raw["merchant"])

\* C17: a date text without UTC offset (a plain date or a date-time) is
\* resolved by _parsetime as that wall-clock time in UTC, whatever the local
\* timezone of the host.
C17_NaiveIsUTC ==
    Returned =>
        LET d == FirstTruthy(raw, DateKeys)
        IN  IsStr(d) /\ d.f = "naive" => norm.date = Time(d.n)

-----------------------------------------------------------------------------
(* Claims about the summary request (Spec) *)

\* _summarize has returned its summary
SummaryReturned == pc \in {"game", "done", "error_game"}

\* the date value _normalize_tx reads from a raw mapping
DateOf(r) == Or(Or(Get(r, "date"), Get(r, "time")), Get(r, "timestamp"))

\* the date of the raw mapping cannot be parsed
Undated(r) == ~_parsetime(DateOf(r), tz).date.some

\* the mapping entries of the input, in input order
InputMappings == Mappings(transactions)

\* the normalized records in input order, placeholders substituted
InputOrder == Placeholders(NormalizeAll(transactions, tz).tx, now)

\* the instant a serialized date denotes
Instant(d) == d.n - d.o

\* recent serializes the local list tx, entry by entry
RecentIsTx ==
    /\ Len(summary.recent) = Len(tx)
    /\ \A i \in DOMAIN tx : summary.recent[i] = _tx_to_json(tx[i])

\* C3: an authenticated summary request completes with a summary response
\* whatever list the MCP service returns: no request ends in an error raised
\* by _summarize or apply_game_logic on the content of the list.
C3_NeverFailsOnData == pc \notin {"error_summarize", "error_game"}

\* C5: _summarize neither filters nor truncates: count is the number of mapping
\* entries, recent holds exactly count entries (every mapping once), records of
\* amount zero are kept, and an entry that is not a mapping is skipped without
\* error (only a mapping can make the normalization raise).
C5_NoFilterNoTruncate ==
    /\ SummaryReturned =>
         /\ summary.count = Len(InputMappings)
         /\ Len(summary.recent) = summary.count
         /\ RecentIsTx
         /\ \A e \in Range(InputMappings) :
              Cardinality({i \in DOMAIN tx : tx[i].raw = e.m})
                = Cardinality({i \in DOMAIN InputMappings : InputMappings[i] = e})
         /\ \A i \in DOMAIN tx :
              AmountOf(tx[i].raw) = F(0) => summary.recent[i].amount = F(0)
    /\ pc = "error_summarize" =>
         \E i \in DOMAIN transactions :
            /\ transactions[i].isdict
            /\ _normalize_tx(transactions[i].m, tz).exc # ""

\* C5 witness: a list of three entries, one not a mapping and one of amount
\* zero, summarized with count 2
C5_Witness ==
    /\ SummaryReturned
    /\ Len(transactions) = 3
    /\ \E i \in DOMAIN transactions : ~transactions[i].isdict
    /\ \E i \in DOMAIN tx : tx[i].amount = F(0)
    /\ summary.count = 2

\* C6: recent is ordered by timestamp descending, and records of equal
\* timestamp keep their relative order of the input.
C6_RecentOrdered ==
    SummaryReturned =>
        LET r == summary.recent
            inp == [i \in DOMAIN InputOrder |-> _tx_to_json(InputOrder[i])]
        IN  /\ \A i, j \in DOMAIN r :
                 i < j => Instant(r[i].date) >= Instant(r[j].date)
            /\ \A k \in DOMAIN r :
                 SelectSeq(r, LAMBDA x : Instant(x.date) = Instant(r[k].date))
                   = SelectSeq(inp, LAMBDA x : Instant(x.date) = Instant(r[k].date))

\* C6 witness: two different records of the same timestamp, and a third of
\* another timestamp, in recent
C6_Witness ==
    /\ SummaryReturned
    /\ \E i, j, k \in DOMAIN summary.recent :
         /\ i < j
         /\ Instant(summary.recent[i].date) = Instant(summary.recent[j].date)
         /\ summary.recent[i] # summary.recent[j]
         /\ Instant(summary.recent[k].date) # Instant(summary.recent[i].date)

\* C7: a record whose date cannot be parsed receives now minus N minutes, N its
\* 0-based position among the mapping entries (entries that are not mappings do
\* not advance N); so the undated records keep their input order in the output.
C7_Placeholders ==
    /\ pc = "sort" =>
         /\ Len(tx) = Len(InputMappings)
         /\ \A i \in DOMAIN tx :
              /\ tx[i].raw = InputMappings[i].m
              /\ Undated(tx[i].raw) => tx[i].date = Time(now - (i - 1))
    /\ SummaryReturned =>
         /\ RecentIsTx
         /\ SelectSeq(tx, LAMBDA t : Undated(t.raw))
              = SelectSeq(InputOrder, LAMBDA t : Undated(t.raw))
         /\ \A i, j \in DOMAIN tx :
              i < j /\ Undated(tx[i].raw) /\ Undated(tx[j].raw)
                => tx[i].date.t > tx[j].date.t

\* C7 witness: two undated records behind an entry that is not a mapping, so
\* that N differs from the position in the unfiltered list
C7_Witness ==
    /\ pc = "sort"
    /\ Len(transactions) = 3
    /\ ~transactions[1].isdict
    /\ Len(tx) = 2
    /\ Undated(tx[1].raw) /\ Undated(tx[2].raw)
    /\ tx[2].date = Time(now - 1)

\* sum of the amounts (thousandths) of the records of tx at the indices S
RECURSIVE SumAt(_)
SumAt(S) ==
    IF S = {} THEN 0
    ELSE LET i == CHOOSE i \in S : TRUE IN tx[i].amount.v + SumAt(S \ {i})

InWindow(days) == {i \in DOMAIN tx : tx[i].date.t >= now - days * Day}
Negative == {i \in DOMAIN tx : ~tx[i].amount.nan /\ tx[i].amount.v < 0}
Positive == {i \in DOMAIN tx : ~tx[i].amount.nan /\ tx[i].amount.v > 0}

WindowIs(st, days) ==
    /\ st.spend = Round2(F(SumAt(InWindow(days) \cap Negative)))
    /\ st.income = Round2(F(SumAt(InWindow(days) \cap Positive)))
    /\ st.net = FAdd(st.income, st.spend)
    /\ FLe0(st.spend)

\* C8: each window (7 and 30 days before now) is computed over exactly the
\* records of timestamp >= now - W: spend is the sum of their negative amounts
\* (<= 0), income the sum of their positive amounts, each rounded to 2 decimals,
\* net = income + spend; an older record contributes to neither, yet is in
\* recent and counted in its bucket.
C8_Windows ==
    SummaryReturned =>
        /\ WindowIs(summary.stats.last_7d, 7)
        /\ WindowIs(summary.stats.last_30d, 30)
        /\ RecentIsTx
        /\ LET b == [i \in DOMAIN tx |-> _bucket_for(tx[i])]
           IN  \A i \in DOMAIN tx :
                  \E k \in DOMAIN summary.buckets :
                     /\ summary.buckets[k].name = b[i]
                     /\ summary.buckets[k].count
                          = Cardinality({j \in DOMAIN tx : b[j] = b[i]})

\* C8 witness: one record older than 30 days, one between 7 and 30 days and
\* one inside 7 days, each of an amount that is not zero
C8_Witness ==
    /\ SummaryReturned
    /\ \E i, j, k \in DOMAIN tx :
         /\ i \notin InWindow(30) /\ i \in Positive
         /\ j \in InWindow(30) \ InWindow(7) /\ j \in Negative
         /\ k \in InWindow(7) /\ k \in Negative
    /\ summary.stats.last_7d.spend # summary.stats.last_30d.spend
    /\ summary.stats.last_30d.income = F(0)

\* C9 as stated: last_income is the first record of the date-descending
\* sequence whose resolved type is Credit, absent only when no record resolves
\* to Credit.
C9_LastIncomeIsFirstCredit ==
    SummaryReturned =>
        LET credits == SelectSeq(tx, LAMBDA t : t.type = "Credit")
        IN  summary.highlights.last_income
              = (IF credits = <<>> THEN <<>> ELSE <<_tx_to_json(credits[1])>>)

\* C9 as amended: last_income is the first record of the date-descending
\* sequence whose amount is > 0 (such a record has type Credit), absent exactly
\* when no record has an amount > 0.
C9_LastIncomeIsFirstPositive ==
    SummaryReturned =>
        LET li == summary.highlights.last_income
        IN  IF Positive = {} THEN li = <<>>
            ELSE /\ Len(li) = 1
                 /\ li[1].type = "Credit"
                 /\ \E i \in Positive :
                      /\ li[1] = _tx_to_json(tx[i])
                      /\ \A j \in Positive : i <= j

\* C9 witness: the most recent record resolves to Credit with amount zero, and
\* last_income is an older record of positive amount
C9_Witness ==
    /\ SummaryReturned
    /\ Len(tx) >= 2
    /\ tx[1].type = "Credit" /\ tx[1].amount = F(0)
    /\ Len(summary.highlights.last_income) = 1
    /\ summary.highlights.last_income[1] # _tx_to_json(tx[1])

\* C16: summarizing an empty list, or a list without a mapping entry, yields
\* count 0, recent [], buckets {}, both highlights absent, every window
\* statistic zero and avg_daily_spend_30d 0.0.
C16_EmptyInput ==
    SummaryReturned /\ InputMappings = <<>> =>
        /\ summary.count = 0
        /\ summary.recent = <<>>
        /\ summary.buckets = <<>>
        /\ summary.highlights.largest_debit = <<>>
        /\ summary.highlights.last_income = <<>>
        /\ \A w \in {"last_7d", "last_30d"} :
              /\ summary.stats[w].spend = F(0)
              /\ summary.stats[w].income = F(0)
              /\ summary.stats[w].net = F(0)
        /\ summary.stats.avg_daily_spend_30d = F(0)

\* C16 witness: a summary returned for a list of two entries, neither a mapping
C16_Witness ==
    /\ SummaryReturned
    /\ Len(transactions) = 2
    /\ InputMappings = <<>>
    /\ summary.count = 0


\* C22: in every summary the 7-day window is contained in the 30-day window,
\* both measured from the same now: a record counted in last_7d is counted in
\* last_30d, so last_7d.income <= last_30d.income and last_7d.spend >=
\* last_30d.spend, and what the 30-day figures have beyond the 7-day figures
\* comes from the records between the two cutoffs.
C22_WindowsNested ==
    SummaryReturned =>
        LET s7 == summary.stats.last_7d
            s30 == summary.stats.last_30d
            between == InWindow(30) \ InWindow(7)
        IN  /\ InWindow(7) \subseteq InWindow(30)
            /\ ~s7.income.nan /\ ~s30.income.nan /\ ~s7.spend.nan /\ ~s30.spend.nan
            /\ s7.income.v <= s30.income.v
            /\ s7.spend.v >= s30.spend.v
            /\ (between \cap Positive = {}) => s7.income = s30.income
            /\ (between \cap Negative = {}) => s7.spend = s30.spend

\* C22 witness: a debit lies between the two cutoffs, a debit and a credit
\* lie inside 7 days: the 30-day spend is strictly below the 7-day spend,
\* which is not zero, and the incomes agree
C22_Witness ==
    /\ SummaryReturned
    /\ \E i, j, k \in DOMAIN tx :
         /\ i \in InWindow(7) \cap Positive
         /\ j \in (InWindow(30) \ InWindow(7)) \cap Negative
         /\ k \in InWindow(7) \cap Negative
    /\ summary.stats.last_7d.spend.v > summary.stats.last_30d.spend.v
    /\ summary.stats.last_7d.spend.v < 0
    /\ summary.stats.last_7d.income.v > 0
    /\ summary.stats.last_7d.income = summary.stats.last_30d.income

-----------------------------------------------------------------------------
(* Claims about the game-state request (SpecGame) *)

\* the entry's merchant-or-label text contains "coffee", in any case
CoffeeEntry(e) ==
    /\ e.isdict
    /\ LET text == FirstTruthy(e.m, <<"merchant", "label">>)
       IN  IsStr(text) /\ Contains(Lower(text.s), S_coffee)

\* the entry has category "Income", type "Credit" or a numeric amount > 0
MoneyEntry(e) ==
    /\ e.isdict
    /\ \/ e.m["category"] = Str(S_Income)
       \/ e.m["type"] = Str(S_Credit)
       \/ e.m["amount"].k \in {"num", "bool"} /\ e.m["amount"].n > 0
       \/ e.m["amount"].k = "big"

\* C13: apply_game_logic returns xp = 100 + 250 c + 500 m and level 1, where
\* c = 1 exactly when some entry's merchant-or-label text contains "coffee" in
\* any case and m = 1 exactly when some entry has category "Income", type
\* "Credit" or a numeric amount > 0; badges holds coffee_crusader iff c = 1 and
\* money_maker iff m = 1, coffee first; xp is one of 100, 350, 600, 850.
C13_GameRule ==
    pc = "done" =>
        LET c == \E i \in DOMAIN transactions : CoffeeEntry(transactions[i])
            m == \E i \in DOMAIN transactions : MoneyEntry(transactions[i])
        IN  /\ game.xp = 100 + (IF c THEN 250 ELSE 0) + (IF m THEN 500 ELSE 0)
            /\ game.level = 1
            /\ game.badges = (IF c THEN <<"coffee_crusader">> ELSE <<>>)
                              \o (IF m THEN <<"money_maker">> ELSE <<>>)
            /\ game.xp \in {100, 350, 600, 850}

\* C13 witness: both rules fire on a list that also holds a purchase whose
\* label names coffee behind another merchant
C13_Witness ==
    /\ pc = "done"
    /\ \E i \in DOMAIN transactions : transactions[i] = G_HiddenCoffee
    /\ game.xp = 850
    /\ game.badges = <<"coffee_crusader", "money_maker">>

\* C14: apply_game_logic has no failure mode: it returns a game state for
\* every raw list, whatever merchant, label, category, type and amount hold.
C14_GameNeverFails == pc # "error_game"

-----------------------------------------------------------------------------
(* Claims about the amount parser (SpecFloat) *)

\* C15: _tofloat is total: for every input (null, a string, an integer of any
\* magnitude, a boolean, a list, a mapping) it returns a float and raises
\* nothing; it returns the default when the input is null or cannot be
\* converted, and otherwise the number the input denotes once ",", "$" and the
\* surrounding whitespace are removed.
C15_TofloatTotal ==
    /\ fpc # "raised"
    /\ fpc = "returned" =>
          CASE fx.k \in {"absent", "null", "obj"} -> fret.val = fdefault
            [] fx.k = "num" -> fret.val = F(fx.n)
            [] fx.k = "bool" -> fret.val = F(1000 * fx.n)
            [] fx.k = "str" ->
                 LET r == FloatOfStr(Strip(RemoveChar(RemoveChar(fx.s, ","), "$")))
                 IN  fret.val = (IF r.ok THEN r.val ELSE fdefault)
            [] OTHER -> TRUE

-----------------------------------------------------------------------------
(* Claims about concurrent invocations (SpecConc) *)

\* what the invocation of fn on l returns when it runs alone and reads n
\* from the clock
RunAlone(fn, l, content, n, localOffset) ==
    IF fn = "_summarize"
    THEN LET r == NormalizeAll(l, localOffset)
         IN  IF r.exc # ""
             THEN [exc |-> r.exc, summary |-> NoSummary, game |-> NoGame]
             ELSE [exc |-> "",
                   summary |-> Summary(SortDesc(Placeholders(r.tx, n)), n),
                   game |-> NoGame]
    ELSE LET g == apply_game_logic(l, content)
         IN  [exc |-> g.exc, summary |-> NoSummary, game |-> g.val]

Ended(p) == inv[p].pc \in {"returned", "raised"}

\* C18: concurrent invocations of _summarize and apply_game_logic, each on
\* its own input list, do not interfere: under every interleaving each
\* invocation ends as it would when run alone with the same clock value, and
\* no invocation modifies its input list, the raw records in it, or the
\* process-wide state.
C18_NoInterference ==
    /\ \A p \in DOMAIN inv :
          /\ inv[p].transactions = inv[p].given
          /\ Ended(p) =>
                LET a == RunAlone(inv[p].fn, inv[p].given, inv[p].ai_content,
                                  inv[p].now, tz)
                IN  /\ inv[p].exc = a.exc
                    /\ inv[p].summary = a.summary
                    /\ inv[p].game = a.game
    /\ _public_key_obj = "None"

\* C18 witness: two invocations of _summarize on equal lists that hold an
\* entry without date have both returned, each with the summary of its own
\* clock value
C18_Witness ==
    /\ inv # <<>>
    /\ inv[1].fn = "_summarize" /\ inv[2].fn = "_summarize"
    /\ inv[1].pc = "returned" /\ inv[2].pc = "returned"
    /\ inv[1].given = inv[2].given
    /\ inv[1].now # inv[2].now
    /\ inv[1].summary # inv[2].summary

-----------------------------------------------------------------------------
(* Claims about the key cache and the authentication (SpecKey) *)

\* C19: the verifier key cache has init-once semantics: across any sequence
\* or interleaving of requests the load of the key from the environment is
\* attempted at most once, and once the cache has left the not-yet-loaded
\* state its value never changes; while the cache is in the failed state every
\* token verification ends in a 500 and /health reports ok = false with
\* status 500.
C19_InitOnce ==
    /\ [](loads <= 1)
    /\ [][_public_key_obj # "None" => _public_key_obj' = _public_key_obj]_vars
    /\ [](_public_key_obj = "KEY_NOT_FOUND" =>
            \A p \in DOMAIN req :
                req[p].pc = "done" /\ req[p].public_key # "None" =>
                    /\ req[p].status = 500
                    /\ req[p].route = "/health" => req[p].ok = "false")

\* the request passes every test of the authentication
AuthOk(r) ==
    /\ StartsWith(r.header.scheme, S_Bearer)
    /\ r.header.token.sig = "valid"
    /\ Truthy(r.header.token.acct)

\* C20: in both game-state routes the transactions are fetched only after the
\* authentication has fully succeeded (the header starts with "Bearer ", the
\* token is verified, its acct claim is not empty); a request that fails one of
\* these is rejected (401, or 500 when the verifier key is unavailable)
\* without any call to MCP, and the fetch is made for exactly the account id
\* of the token.
C20_FetchAfterAuth ==
    \A p \in DOMAIN req :
        LET r == req[p]
        IN  /\ r.fetched.some =>
                  /\ r.route \in GameRoutes
                  /\ AuthOk(r)
                  /\ r.public_key = "KEY"
                  /\ r.fetched.account_id = r.header.token.acct
            /\ r.pc \in {"fetch", "done"} /\ r.route \in GameRoutes
                  /\ ~(AuthOk(r) /\ environ = "pem") =>
                  /\ r.pc = "done"
                  /\ ~r.fetched.some
                  /\ r.status \in {401, 500}
                  /\ r.status = 500 => environ # "pem"

\* C20 witness: one request answered 200 after a fetch for the account of its
\* token, another with an expired token rejected without a fetch
C20_Witness ==
    /\ req # <<>>
    /\ \E p, q \in DOMAIN req :
          /\ req[p].pc = "done"
          /\ req[p].fetched = [some |-> TRUE, account_id |-> Str(T_acct2)]
          /\ req[p].header.token.acct = Str(T_acct2)
          /\ req[p].status = 200
          /\ req[q].pc = "done"
          /\ req[q].header.token.sig = "expired"
          /\ req[q].status = 401
          /\ ~req[q].fetched.some

-----------------------------------------------------------------------------
(* Claims about the buckets of a summary (SpecBuckets) *)

\* a == b of two floats: NaN equals nothing
FEq(a, b) == ~a.nan /\ ~b.nan /\ a.v = b.v

\* the sum of the counts of the buckets
RECURSIVE CountSum(_)
CountSum(b) == IF b = <<>> THEN 0 ELSE Head(b).count + CountSum(Tail(b))

\* the sum of the totals of the buckets
RECURSIVE TotalSum(_)
TotalSum(b) == IF b = <<>> THEN F(0) ELSE FAdd(Head(b).total, TotalSum(Tail(b)))

\* C23: bucket aggregation conserves the batch: in every summary the bucket
\* counts sum to count, every bucket of the output has count >= 1, the bucket
\* totals sum to the sum of the normalized amounts, the Income total is >= 0
\* and every other total is <= 0, and the buckets are emitted in ascending
\* order of name.
C23_BucketsConserveBatch ==
    SummaryReturned =>
        LET b == summary.buckets
        IN  /\ CountSum(b) = summary.count
            /\ \A k \in DOMAIN b : b[k].count >= 1
            /\ FEq(TotalSum(b), FSum(tx))
            /\ \A k \in DOMAIN b :
                  IF b[k].name = S_Income THEN FGe0(b[k].total) ELSE FLe0(b[k].total)
            /\ \A j, k \in DOMAIN b : j < k => StrLess(b[j].name, b[k].name)

-----------------------------------------------------------------------------
(* Claims about the enrichment of the mcp gateway (SpecEnrich) *)

\* the element yields a row
ValidItem(item) == item.isdict /\ FloatOf(item.amount).ok

\* the enrichment was attempted and failed: the call raised, the text is no
\* JSON, it is no array, or no element of the array yields a row
EnrichFailed ==
    /\ epc = "returned"
    /\ ~DISABLE_GEMINI
    /\ \/ eresp.kind \in {"raises", "notjson", "notlist"}
       \/ eresp.kind = "list"
            /\ \A i \in DOMAIN eresp.data : ~ValidItem(eresp.data[i])

\* C21: whenever the enrichment fails, enrich_transactions_with_gemini
\* returns the list it was given, every transaction present and unchanged,
\* whatever the length of the list (longer than MAX_TXNS_FOR_ENRICH included).
C21_FailureReturnsOriginal == EnrichFailed => eret = etransactions

=============================================================================
